---- MODULE Spec2Model ----
(***************************************************************************)
(* A model of mesoscoPy's gate-map experiment (experiment/double_gate_map), *)
(* the lock-in initialisation (instrument/lockin) and the complex-part      *)
(* selection of the dataset plots (analysis/plot).                          *)
(*                                                                          *)
(* Voltages are integers in units of 0.1 V, so that _go_to's step of 2e-1   *)
(* is 2.  A Python Optional is a sequence: <<>> is None, <<x>> holds x.     *)
(* Every instrument read or write may fail (the driver raises); a raised    *)
(* exception unwinds every frame in the same step, as in Python.            *)
(***************************************************************************)
EXTENDS Integers, Sequences, FiniteSets, TLC

VARIABLES
    station,    \* station.components: the kinds of the components, in insertion order
    inst,       \* the Keithley: volt of smua/smub, the log of volt writes, I/O calls made
    g,          \* the frame of _go_to
    gm,         \* the frame of gate_map
    sw,         \* the frame of sweep2d
    lk,         \* the frame of initialise_lockin and the log of lock-in writes
    pl          \* the frame of plot_dataset_1D / plot_dataset_2D

vars == <<station, inst, g, gm, sw, lk, pl>>

(***************************************************************************)
(* Bounds of the model.                                                     *)
(***************************************************************************)
MaxVolt == 3          \* _go_to is called with v0, v1 in -MaxVolt..MaxVolt
MaxExtra == 2         \* components of a station besides the keithley and the triton
MaxArrayLen == 3      \* length of xarray and yarray

Step == 2             \* step=2e-1 of _go_to, in units of 0.1 V

None == <<>>
Some(x) == <<x>>

Chans == {"smua", "smub"}
Volts == (0 - MaxVolt)..MaxVolt
CurrReadings == {0 - 2, 0, 2}
Thresholds == {None, Some(0), Some(1)}

Abs(x) == IF x < 0 THEN 0 - x ELSE x

(***************************************************************************)
(* measurement/array.generate_1D_sweep_array: from start to stop inclusive, *)
(* advancing by step towards stop, the last interval shortened so that the  *)
(* last element is stop.                                                    *)
(***************************************************************************)
RECURSIVE generate_1D_sweep_array(_, _, _)
generate_1D_sweep_array(start, stop, step) ==
    IF start = stop THEN <<start>>
    ELSE IF start < stop
         THEN <<start>> \o generate_1D_sweep_array(
                  IF start + step > stop THEN stop ELSE start + step, stop, step)
         ELSE <<start>> \o generate_1D_sweep_array(
                  IF start - step < stop THEN stop ELSE start - step, stop, step)

(***************************************************************************)
(* The frames when no call is active.                                       *)
(***************************************************************************)
GIdle ==
    [pc |-> "idle", chan |-> "smua", v0 |-> 0, v1 |-> 0, threshold |-> None,
     array |-> <<>>, i |-> 0, v |-> None, obs |-> <<>>, broke |-> FALSE,
     ret |-> None, base |-> 0]

GCall(v0, v1, chan, threshold, base) ==
    [GIdle EXCEPT !.pc = "start", !.chan = chan, !.v0 = v0, !.v1 = v1,
                  !.threshold = threshold, !.base = base]

GmIdle ==
    [pc |-> "idle", xarray |-> <<>>, yarray |-> <<>>, exp |-> "None",
     label |-> "None", measure_retrace |-> FALSE, lockins |-> <<>>,
     init_tg |-> None, init_bg |-> None, call |-> None, ret |-> None,
     failedIn |-> "none", initialised |-> FALSE, approached |-> 0]

SwIdle ==
    [pc |-> "idle", inner |-> <<>>, outer |-> <<>>, retrace |-> FALSE,
     i |-> 0, j |-> 0, pass |-> "trace", records |-> <<>>, result |-> None]

LkIdle == [pc |-> "idle", freq |-> 127, lockins |-> <<>>, k |-> 0, writes |-> <<>>]

PlIdle ==
    [pc |-> "idle", fn |-> "1D", complex_plot_type |-> "mag_and_phase",
     complex_plot_phase |-> "degrees", varKnown |-> TRUE, isComplex |-> TRUE,
     complex_type |-> None, degrees |-> None, loaded |-> FALSE,
     dataset |-> <<>>, printed |-> <<>>, raised |-> None, plotted |-> <<>>]

InstInit == [volt |-> [c \in Chans |-> 0], writes |-> <<>>, ops |-> 0, failed |-> FALSE]

(***************************************************************************)
(* The instrument.  A volt write that succeeds sets the channel's voltage   *)
(* and is logged; every call, failed or not, is counted, and a failed call  *)
(* (the driver raised) is remembered.                                       *)
(***************************************************************************)
VoltWritten(chan, v) ==
    [inst EXCEPT !.volt[chan] = v, !.writes = Append(@, <<chan, v>>), !.ops = @ + 1]

IoCalled == [inst EXCEPT !.ops = @ + 1]

IoFailed == [inst EXCEPT !.ops = @ + 1, !.failed = TRUE]

\* the values written to chan, in order, from position base of the log on
RECURSIVE ChanWritesFrom(_, _, _)
ChanWritesFrom(log, chan, k) ==
    IF k > Len(log) THEN <<>>
    ELSE (IF log[k][1] = chan THEN <<log[k][2]>> ELSE <<>>)
         \o ChanWritesFrom(log, chan, k + 1)

(***************************************************************************)
(* An exception raised in gate_map or below it (in _go_to, in sweep2d)      *)
(* leaves gate_map, which has no try; phase says where it was raised.       *)
(***************************************************************************)
\* the exception swallowed, as by a bare try/except around the call
GmPropagateSwallowed(phase) == gm

GmPropagate(phase) ==
    IF gm.pc = "idle" THEN gm
    ELSE [gm EXCEPT !.pc = "raised", !.failedIn = phase]

(***************************************************************************)
(* _go_to                                                                   *)
(***************************************************************************)
\* the truth value of `threshold` in `if threshold and ...`
Truthy(t) == t # None /\ t[1] # 0

\* `channel.curr() > threshold`
Exceeds(reading, t) == reading > t[1]

\* a loop that lags one element behind
LoopValueLagging(array, i) == array[IF i > 1 THEN i - 1 ELSE 1]

\* the element the for loop binds to v in iteration i (1-based)
LoopValue(array, i) == array[i]

\* line 66: array = generate_1D_sweep_array(v0, v1, step=2e-1)
GoStart ==
    /\ g.pc = "start"
    /\ g' = [g EXCEPT !.pc = "loop",
                      !.array = generate_1D_sweep_array(g.v0, g.v1, Step)]
    /\ UNCHANGED <<station, inst, gm, sw, lk, pl>>

\* lines 68-69: for v in array: channel.volt(v)
GoWrite ==
    /\ g.pc = "loop"
    /\ g.i < Len(g.array)
    /\ LET v == LoopValue(g.array, g.i + 1) IN
       \E ok \in BOOLEAN :
          IF ok
          THEN /\ inst' = VoltWritten(g.chan, v)
               /\ g' = [g EXCEPT !.pc = "read", !.i = @ + 1, !.v = Some(v)]
               /\ gm' = gm
          ELSE /\ inst' = IoFailed
               /\ g' = [g EXCEPT !.pc = "raised", !.i = @ + 1, !.v = Some(v)]
               /\ gm' = GmPropagate("approach")
    /\ UNCHANGED <<station, sw, lk, pl>>

\* obs keeps, for a call given a threshold, the last reading of curr in each
\* iteration; a call without one never looks at a reading
Observed(frame, r) ==
    IF frame.threshold = None THEN frame.obs ELSE Append(frame.obs, r)

\* line 70: channel.curr(), the value discarded
GoRead ==
    /\ g.pc = "read"
    /\ \E ok \in BOOLEAN :
          IF ok
          THEN /\ inst' = IoCalled
               /\ \E r \in CurrReadings :
                    g' = [g EXCEPT !.pc = "check", !.obs = Observed(g, r)]
               /\ gm' = gm
          ELSE /\ inst' = IoFailed
               /\ g' = [g EXCEPT !.pc = "raised"]
               /\ gm' = GmPropagate("approach")
    /\ UNCHANGED <<station, sw, lk, pl>>

\* lines 72-73: if threshold and channel.curr() > threshold: break
\* (`and` short-circuits: with a falsy threshold curr is not read again)
GoCheck ==
    /\ g.pc = "check"
    /\ IF Truthy(g.threshold)
       THEN \E ok \in BOOLEAN :
                  IF ok
                  THEN /\ inst' = IoCalled
                       /\ \E r \in CurrReadings :
                            g' = [g EXCEPT
                                    !.obs = [@ EXCEPT ![Len(@)] = r],
                                    !.broke = Exceeds(r, g.threshold),
                                    !.pc = IF Exceeds(r, g.threshold)
                                           THEN "after" ELSE "loop"]
                       /\ gm' = gm
                  ELSE /\ inst' = IoFailed
                       /\ g' = [g EXCEPT !.pc = "raised"]
                       /\ gm' = GmPropagate("approach")
       ELSE /\ g' = [g EXCEPT !.pc = "loop"]
            /\ UNCHANGED <<inst, gm>>
    /\ UNCHANGED <<station, sw, lk, pl>>

\* the for loop is exhausted
GoLoopEnd ==
    /\ g.pc = "loop"
    /\ g.i = Len(g.array)
    /\ g' = [g EXCEPT !.pc = "after"]
    /\ UNCHANGED <<station, inst, gm, sw, lk, pl>>

\* line 75: return v (an unbound v, after an empty array, raises)
GoReturn ==
    /\ g.pc = "after"
    /\ IF g.v = None
       THEN /\ g' = [g EXCEPT !.pc = "raised"]
            /\ gm' = GmPropagate("approach")
       ELSE /\ g' = [g EXCEPT !.pc = "returned", !.ret = g.v]
            /\ gm' = gm
    /\ UNCHANGED <<station, inst, sw, lk, pl>>

GoToNext == GoStart \/ GoWrite \/ GoRead \/ GoCheck \/ GoLoopEnd \/ GoReturn

(***************************************************************************)
(* measurement/sweep.sweep2d, called as gate_map calls it:                  *)
(*   sweep2d(param_setx, xarray, inner_delay, param_sety, yarray,           *)
(*           outer_delay, *param_meas, exp, measurement_name, use_threads,  *)
(*           measure_retrace)                                               *)
(* The y axis is the outer (slow) one.  A record is <<outer setpoint, inner *)
(* setpoint, pass>>; the readings of the observables are not modelled.      *)
(***************************************************************************)
SwCall(args) ==
    [SwIdle EXCEPT !.pc = "outer", !.inner = args.xarray, !.outer = args.yarray,
                   !.retrace = args.measure_retrace]

\* the handle sweep2d returns: the dataset it has written
SwResult(frame, args) ==
    [name |-> args.measurement_name, exp |-> args.exp, points |-> Len(frame.records)]

\* the next outer setpoint is written (once per row)
SwOuterStep ==
    /\ sw.pc = "outer"
    /\ sw.i < Len(sw.outer)
    /\ \E ok \in BOOLEAN :
          IF ok
          THEN /\ inst' = VoltWritten(gm.call[1].param_sety, sw.outer[sw.i + 1])
               /\ sw' = [sw EXCEPT !.pc = "inner", !.i = @ + 1, !.j = 0, !.pass = "trace"]
               /\ gm' = gm
          ELSE /\ inst' = IoFailed
               /\ sw' = [sw EXCEPT !.pc = "raised"]
               /\ gm' = GmPropagate("sweep")
    /\ UNCHANGED <<station, g, lk, pl>>

\* the next inner setpoint is written, the observables are read, the record is saved
SwPointStep ==
    /\ sw.pc = "inner"
    /\ sw.j < Len(sw.inner)
    /\ \E ok \in BOOLEAN :
          IF ok
          THEN /\ inst' = VoltWritten(gm.call[1].param_setx, sw.inner[sw.j + 1])
               /\ sw' = [sw EXCEPT !.j = @ + 1,
                                   !.records = Append(@, <<sw.outer[sw.i],
                                                           sw.inner[sw.j + 1], sw.pass>>)]
               /\ gm' = gm
          ELSE /\ inst' = IoFailed
               /\ sw' = [sw EXCEPT !.pc = "raised"]
               /\ gm' = GmPropagate("sweep")
    /\ UNCHANGED <<station, g, lk, pl>>

\* the forward pass of a row is over and a retrace is asked for: walk the inner array again
SwRetrace ==
    /\ sw.pc = "inner"
    /\ sw.j = Len(sw.inner)
    /\ sw.pass = "trace" /\ sw.retrace
    /\ sw' = [sw EXCEPT !.j = 0, !.pass = "retrace"]
    /\ UNCHANGED <<station, inst, g, gm, lk, pl>>

\* the row is over
SwRowEnd ==
    /\ sw.pc = "inner"
    /\ sw.j = Len(sw.inner)
    /\ sw.pass = "retrace" \/ ~sw.retrace
    /\ sw' = [sw EXCEPT !.pc = "outer"]
    /\ UNCHANGED <<station, inst, g, gm, lk, pl>>

\* the outer array is exhausted: the handle of the dataset is returned
SwFinish ==
    /\ sw.pc = "outer"
    /\ sw.i = Len(sw.outer)
    /\ sw' = [sw EXCEPT !.pc = "returned", !.result = Some(SwResult(sw, gm.call[1]))]
    /\ UNCHANGED <<station, inst, g, gm, lk, pl>>

Sweep2dNext == SwOuterStep \/ SwPointStep \/ SwRetrace \/ SwRowEnd \/ SwFinish

(***************************************************************************)
(* gate_map                                                                 *)
(***************************************************************************)
\* lines 93-97: the names (here: positions) of the components whose class is MFLI
RECURSIVE DiscoverFrom(_, _)
DiscoverFrom(components, k) ==
    IF k > Len(components) THEN <<>>
    ELSE (IF components[k] = "MFLI" THEN <<k>> ELSE <<>>)
         \o DiscoverFrom(components, k + 1)

\* discovery by the isinstance test alone, without the test of the class
DiscoverAnyInstrument(components) ==
    SelectSeq([k \in 1..Len(components) |-> k],
              LAMBDA k : components[k] # "Parameter")

DiscoverLockins(components) == DiscoverFrom(components, 1)

\* lines 114-119: the observables handed to sweep2d
RECURSIVE LockinSamples(_)
LockinSamples(lockins) ==
    IF lockins = <<>> THEN <<>>
    ELSE <<<<lockins[1], "demods[0].sample">>>> \o LockinSamples(Tail(lockins))

FixedObservables ==
    << <<"triton", "T8">>, <<"triton", "Bz">>,
       <<"keithley", "smua.curr">>, <<"keithley", "smub.curr">> >>

GmObservables(lockins) == LockinSamples(lockins) \o FixedObservables

\* the call without measure_retrace, which sweep2d then takes as False
GmSweepArgsNoRetrace(frame) ==
    [param_setx |-> "smua", xarray |-> frame.xarray, inner_delay |-> "inner_delay",
     param_sety |-> "smub", yarray |-> frame.yarray, outer_delay |-> "outer_delay",
     param_meas |-> GmObservables(frame.lockins),
     exp |-> frame.exp,
     measurement_name |-> <<"gate map", frame.label>>,
     use_threads |-> TRUE,
     measure_retrace |-> FALSE]

\* lines 107-124: the arguments of the call of sweep2d
GmSweepArgs(frame) ==
    [param_setx |-> "smua", xarray |-> frame.xarray, inner_delay |-> "inner_delay",
     param_sety |-> "smub", yarray |-> frame.yarray, outer_delay |-> "outer_delay",
     param_meas |-> GmObservables(frame.lockins),
     exp |-> frame.exp,
     measurement_name |-> <<"gate map", frame.label>>,
     use_threads |-> TRUE,
     measure_retrace |-> frame.measure_retrace]

\* line 88: initialise_keithley(station), which writes no gate voltage
GmInitialise ==
    /\ gm.pc = "start"
    /\ \E ok \in BOOLEAN :
          IF ok
          THEN /\ inst' = IoCalled
               /\ gm' = [gm EXCEPT !.pc = "discover", !.initialised = TRUE]
          ELSE /\ inst' = IoFailed
               /\ gm' = GmPropagate("initialise")
    /\ UNCHANGED <<station, g, sw, lk, pl>>

\* lines 93-97
GmDiscover ==
    /\ gm.pc = "discover"
    /\ gm' = [gm EXCEPT !.pc = "read_tg", !.lockins = DiscoverLockins(station)]
    /\ UNCHANGED <<station, inst, g, sw, lk, pl>>

\* line 98: init_tg = station.keithley.smua.volt()
GmReadTg ==
    /\ gm.pc = "read_tg"
    /\ \E ok \in BOOLEAN :
          IF ok
          THEN /\ inst' = IoCalled
               /\ gm' = [gm EXCEPT !.pc = "read_bg", !.init_tg = Some(inst.volt["smua"])]
          ELSE /\ inst' = IoFailed
               /\ gm' = GmPropagate("read")
    /\ UNCHANGED <<station, g, sw, lk, pl>>

\* line 99: init_bg = station.keithley.smub.volt()
GmReadBg ==
    /\ gm.pc = "read_bg"
    /\ \E ok \in BOOLEAN :
          IF ok
          THEN /\ inst' = IoCalled
               /\ gm' = [gm EXCEPT !.pc = "call_tg", !.init_bg = Some(inst.volt["smub"])]
          ELSE /\ inst' = IoFailed
               /\ gm' = GmPropagate("read")
    /\ UNCHANGED <<station, g, sw, lk, pl>>

\* lines 101 and 104: the value each approach starts from
GmTgStart(frame) == frame.init_tg[1]

\* the back gate's approach started from the top gate's reading
GmBgStartFromTg(frame) == frame.init_tg[1]

GmBgStart(frame) == frame.init_bg[1]

\* lines 101-102: _go_to(init_tg, xarray[0], station.keithley.smua, desc=...)
\* (xarray[0] of an empty array raises IndexError)
GmGoTg ==
    /\ gm.pc = "call_tg"
    /\ IF gm.xarray = <<>>
       THEN /\ gm' = [gm EXCEPT !.pc = "raised", !.failedIn = "index"]
            /\ g' = g
       ELSE /\ gm' = [gm EXCEPT !.pc = "goto_tg"]
            /\ g' = GCall(GmTgStart(gm), gm.xarray[1], "smua", None, Len(inst.writes) + 1)
    /\ UNCHANGED <<station, inst, sw, lk, pl>>

\* lines 104-105: _go_to(init_bg, yarray[0], station.keithley.smub, desc=...)
GmGoBg ==
    /\ gm.pc = "goto_tg"
    /\ g.pc = "returned"
    /\ IF gm.yarray = <<>>
       THEN /\ gm' = [gm EXCEPT !.pc = "raised", !.failedIn = "index", !.approached = 1]
            /\ g' = GIdle
       ELSE /\ gm' = [gm EXCEPT !.pc = "goto_bg", !.approached = 1]
            /\ g' = GCall(GmBgStart(gm), gm.yarray[1], "smub", None, Len(inst.writes) + 1)
    /\ UNCHANGED <<station, inst, sw, lk, pl>>

\* lines 107-124: raw_data = sweep2d(...)
GmSweep ==
    /\ gm.pc = "goto_bg"
    /\ g.pc = "returned"
    /\ gm' = [gm EXCEPT !.pc = "sweep", !.approached = 2, !.call = Some(GmSweepArgs(gm))]
    /\ sw' = SwCall(GmSweepArgs(gm))
    /\ g' = GIdle
    /\ UNCHANGED <<station, inst, lk, pl>>

\* line 126: return raw_data
GmReturn ==
    /\ gm.pc = "sweep"
    /\ sw.pc = "returned"
    /\ gm' = [gm EXCEPT !.pc = "done", !.ret = sw.result]
    /\ UNCHANGED <<station, inst, g, sw, lk, pl>>

GateMapNext ==
    \/ GmInitialise \/ GmDiscover \/ GmReadTg \/ GmReadBg \/ GmGoTg \/ GmGoBg
    \/ GmSweep \/ GmReturn
    \/ GoToNext
    \/ Sweep2dNext

(***************************************************************************)
(* _go_to called on its own, for any v0, v1 and threshold.                  *)
(***************************************************************************)
StationOf(extra) == <<"Keithley", "Triton">> \o extra

InitGoTo ==
    /\ station = StationOf(<<>>)
    /\ inst = InstInit
    /\ \E v0 \in Volts, v1 \in Volts, c \in Chans, t \in Thresholds :
          g = GCall(v0, v1, c, t, 1)
    /\ gm = GmIdle
    /\ sw = SwIdle
    /\ lk = LkIdle
    /\ pl = PlIdle

(***************************************************************************)
(* gate_map called on a station of a keithley, a triton and up to MaxExtra  *)
(* further components (station_triton adds MFLIs and a Parameter), with     *)
(* the gates resting at 0 or 0.1 V.                                         *)
(***************************************************************************)
ExtraKinds == {"MFLI", "Parameter"}
Extras == UNION {[1..n -> ExtraKinds] : n \in 0..MaxExtra}
Stations == {StationOf(e) : e \in Extras}

\* a sweep array of n points from start, 0.1 V apart
SweepArray(start, n) == [k \in 1..n |-> start + k - 1]
SweepArrays == {SweepArray(s, n) : s \in {0, 3}, n \in 0..MaxArrayLen}
RestVolts == {0, 1}
Exps == {"None", "exp"}

GmCall(xarray, yarray, exp, retrace) ==
    [GmIdle EXCEPT !.pc = "start", !.xarray = xarray, !.yarray = yarray,
                   !.exp = exp, !.measure_retrace = retrace]

InitGateMap ==
    /\ station \in Stations
    /\ \E tg \in RestVolts, bg \in RestVolts :
          inst = [InstInit EXCEPT !.volt = [c \in Chans |-> IF c = "smua" THEN tg ELSE bg]]
    /\ g = GIdle
    /\ \E xs \in SweepArrays, ys \in SweepArrays, e \in Exps, r \in BOOLEAN :
          gm = GmCall(xs, ys, e, r)
    /\ sw = SwIdle
    /\ lk = LkIdle
    /\ pl = PlIdle

(***************************************************************************)
(* initialise_lockin.  A write is <<component, parameter, value>>; values   *)
(* are kept as the source writes them.                                      *)
(***************************************************************************)
\* lines 20-30: the lock-in that sources the reference signal
MasterWrites(m, freq) ==
    << <<m, "oscs[0].freq", freq>>,
       <<m, "sigouts[0].on", "1">>,
       <<m, "sigouts[0].range", "10">>,
       <<m, "sigouts[0].amplitudes0", "2**(1/2)">>,
       <<m, "sigouts[0].enables0", "1">>,
       <<m, "sigouts[0].enables1", "0">>,
       <<m, "sigouts[0].imp50", "0">>,
       <<m, "sigouts[0].offset", "0">>,
       <<m, "sigouts[0].diff", "0">>,
       <<m, "triggers.out[0].source", "52">>,
       <<m, "triggers.out[1].source", "1">> >>

\* lines 33-37: a lock-in that follows the reference
SlaveWrites(l) ==
    << <<l, "demods[1].adcselect", "3">>,
       <<l, "extrefs[0].enable", "1">>,
       <<l, "sigouts[0].on", "0">>,
       <<l, "triggers.out[0].source", "0">>,
       <<l, "triggers.out[1].source", "0">> >>

\* lines 40-54: every lock-in
CommonWrites(l) ==
    << <<l, "demods[0].oscselect", "0">>,
       <<l, "demods[0].harmonic", "1">>,
       <<l, "demods[0].phaseshift", "0">>,
       <<l, "demods[0].sinc", "1">>,
       <<l, "demods[0].timeconstant", ".1">>,
       <<l, "demods[0].order", "8">>,
       <<l, "sigins[0].ac", "1">>,
       <<l, "sigins[0].imp50", "0">>,
       <<l, "sigins[0].diff", "1">>,
       <<l, "sigins[0].float", "0">>,
       <<l, "sigins[0].scaling", "1">>,
       <<l, "sigins[0].range", "3e-3">>,
       <<l, "sigouts[0].range", "10">> >>

\* the loop of line 32 over every lock-in, the first included
SlaveLockinsAll(lockins) == lockins

\* line 32: lockins[1:]
SlaveLockins(lockins) == Tail(lockins)

\* an initialise_lockin that never reaches for lockins[0]
MasterMissingNever(lockins) == FALSE

\* line 20: lockins[0] of an empty list raises IndexError
MasterMissing(lockins) == lockins = <<>>

\* lines 32-37: for lockin in lockins[1:]
RECURSIVE SlaveLoop(_)
SlaveLoop(slaves) ==
    IF slaves = <<>> THEN <<>>
    ELSE SlaveWrites(slaves[1]) \o SlaveLoop(Tail(slaves))

\* lines 39-54: for lockin in lockins
RECURSIVE CommonLoop(_)
CommonLoop(lockins) ==
    IF lockins = <<>> THEN <<>>
    ELSE CommonWrites(lockins[1]) \o CommonLoop(Tail(lockins))

\* lines 20-54: the writes of initialise_lockin, in program order
LkProgram(lockins, freq) ==
    IF lockins = <<>> THEN <<>>
    ELSE MasterWrites(lockins[1], freq)
         \o SlaveLoop(SlaveLockins(lockins))
         \o CommonLoop(lockins)

\* lines 14-20: discovery, and the evaluation of lockins[0]
LkDiscover ==
    /\ lk.pc = "start"
    /\ LET found == DiscoverLockins(station) IN
       lk' = [lk EXCEPT !.lockins = found,
                        !.pc = IF MasterMissing(found) THEN "raised" ELSE "write"]
    /\ UNCHANGED <<station, inst, g, gm, sw, pl>>

\* one parameter write of lines 20-54
LkWrite ==
    /\ lk.pc = "write"
    /\ lk.k < Len(LkProgram(lk.lockins, lk.freq))
    /\ \E ok \in BOOLEAN :
          lk' = IF ok
                THEN [lk EXCEPT !.k = @ + 1,
                                !.writes = Append(@, LkProgram(lk.lockins, lk.freq)[lk.k + 1])]
                ELSE [lk EXCEPT !.k = @ + 1, !.pc = "raised"]
    /\ UNCHANGED <<station, inst, g, gm, sw, pl>>

\* lines 56-61: the report, and return
LkReturn ==
    /\ lk.pc = "write"
    /\ lk.k = Len(LkProgram(lk.lockins, lk.freq))
    /\ lk' = [lk EXCEPT !.pc = "done"]
    /\ UNCHANGED <<station, inst, g, gm, sw, pl>>

LockinNext == LkDiscover \/ LkWrite \/ LkReturn

\* the value a parameter of a component was last set to by initialise_lockin
RECURSIVE LastWritten(_, _, _)
LastWritten(log, who, param) ==
    IF log = <<>> THEN None
    ELSE LET w == log[Len(log)] IN
         IF w[1] = who /\ w[2] = param THEN Some(w[3])
         ELSE LastWritten(SubSeq(log, 1, Len(log) - 1), who, param)

Freqs == {"127", "1000"}

InitLockin ==
    /\ station \in Stations
    /\ inst = InstInit
    /\ g = GIdle
    /\ gm = GmIdle
    /\ sw = SwIdle
    /\ \E f \in Freqs : lk = [LkIdle EXCEPT !.pc = "start", !.freq = f]
    /\ pl = PlIdle

(***************************************************************************)
(* plot_dataset_1D and plot_dataset_2D: the validation of the arguments,    *)
(* the loading, the choice of the component to plot and the drawing.  The   *)
(* two functions differ in what they draw, not in these steps.              *)
(***************************************************************************)
PlotTypes == {"real_and_imag", "mag_and_phase", "real", "imag", "mag", "phase"}
PlotPhases == {"radians", "degrees"}

\* lines 78-83 / 183-188
ComplexType(t) ==
    IF t \in {"real", "imag"} THEN "real_and_imag"
    ELSE IF t \in {"mag", "phase"} THEN "mag_and_phase"
    ELSE t

\* qcodes' _complex_to_real_preparser on one dataset: complex data becomes two
\* datasets, real data is passed on as it is
Preparse(isComplex, conversion) ==
    IF ~isComplex THEN <<"data">>
    ELSE IF conversion = "real_and_imag" THEN <<"real", "imag">>
    ELSE <<"mag", "phase">>

\* what dataset[i] raises, if anything (i counted from 0)
IndexRaises(seq, i) == IF i + 1 > Len(seq) THEN Some("IndexError") ELSE None

\* lines 106 / 212: except ValueError
Handled(exc) == exc = "ValueError"

\* lines 66-83 / 172-188
PlValidate ==
    /\ pl.pc = "start"
    /\ pl' = IF pl.complex_plot_type \notin PlotTypes
                \/ pl.complex_plot_phase \notin PlotPhases
             THEN [pl EXCEPT !.pc = "raised", !.raised = Some("ValueError")]
             ELSE [pl EXCEPT !.pc = "load",
                             !.degrees = Some(pl.complex_plot_phase = "degrees"),
                             !.complex_type = Some(ComplexType(pl.complex_plot_type))]
    /\ UNCHANGED <<station, inst, g, gm, sw, lk>>

\* lines 85-97 / 190-202
PlLoad ==
    /\ pl.pc = "load"
    /\ pl' = IF ~pl.varKnown
             THEN [pl EXCEPT !.pc = "raised", !.loaded = TRUE, !.raised = Some("ValueError")]
             ELSE [pl EXCEPT !.pc = "select", !.loaded = TRUE,
                             !.dataset = Preparse(pl.isComplex, pl.complex_type[1])]
    /\ UNCHANGED <<station, inst, g, gm, sw, lk>>

\* lines 101-107 / 207-213
PlSelect ==
    /\ pl.pc = "select"
    /\ pl' = IF pl.complex_plot_type \in {"real", "mag"}
             THEN [pl EXCEPT !.pc = "draw", !.dataset = <<pl.dataset[1]>>]
             ELSE IF pl.complex_plot_type \in {"imag", "phase"}
             THEN LET exc == IndexRaises(pl.dataset, 1) IN
                  IF exc = None
                  THEN [pl EXCEPT !.pc = "draw", !.dataset = <<pl.dataset[2]>>]
                  ELSE IF Handled(exc[1])
                  THEN [pl EXCEPT !.pc = "draw",
                                  !.printed = Append(@, "the dataset had no imaginary part")]
                  ELSE [pl EXCEPT !.pc = "raised", !.raised = exc]
             ELSE [pl EXCEPT !.pc = "draw"]
    /\ UNCHANGED <<station, inst, g, gm, sw, lk>>

\* lines 109-134 / 215-247: plt.subplots(nplots) gives a single Axes, not a
\* list, when nplots is 1, and zip(dataset, axeslist) then raises TypeError
PlDraw ==
    /\ pl.pc = "draw"
    /\ pl' = IF Len(pl.dataset) = 1
             THEN [pl EXCEPT !.pc = "raised", !.raised = Some("TypeError")]
             ELSE [pl EXCEPT !.pc = "done", !.plotted = pl.dataset]
    /\ UNCHANGED <<station, inst, g, gm, sw, lk>>

PlotNext == PlValidate \/ PlLoad \/ PlSelect \/ PlDraw

InitPlot ==
    /\ station = StationOf(<<>>)
    /\ inst = InstInit
    /\ g = GIdle
    /\ gm = GmIdle
    /\ sw = SwIdle
    /\ lk = LkIdle
    /\ \E fn \in {"1D", "2D"}, t \in PlotTypes \cup {"abs"},
          ph \in PlotPhases \cup {"turns"}, known \in BOOLEAN, cplx \in BOOLEAN :
          pl = [PlIdle EXCEPT !.pc = "start", !.fn = fn, !.complex_plot_type = t,
                              !.complex_plot_phase = ph, !.varKnown = known,
                              !.isComplex = cplx]

(***************************************************************************)
(* The program: one call of _go_to, of gate_map, of initialise_lockin or of *)
(* a plot function, run to its end.                                         *)
(***************************************************************************)
Init == InitGoTo \/ InitGateMap \/ InitLockin \/ InitPlot

Next == GateMapNext \/ LockinNext \/ PlotNext

Spec == Init /\ [][Next]_vars

(***************************************************************************)
(* The claims.                                                              *)
(***************************************************************************)
\* the values the running (or finished) _go_to has written to its channel
GoWrites == ChanWritesFrom(inst.writes, g.chan, g.base)

\* C1: when _go_to, called without a threshold, returns (no instrument call
\* having failed), the channel's voltage and the last value written are v1, the
\* value returned is v1, and the values written are the elements of the sweep
\* array from v0 to v1, each once, in order.
C1_GoToReachesTarget ==
    (g.pc = "returned" /\ g.threshold = None) =>
        /\ inst.volt[g.chan] = g.v1
        /\ GoWrites # <<>> /\ GoWrites[Len(GoWrites)] = g.v1
        /\ g.ret = Some(g.v1)
        /\ GoWrites = generate_1D_sweep_array(g.v0, g.v1, Step)

C1_Witness ==
    /\ g.pc = "returned" /\ g.threshold = None /\ gm.pc = "idle"
    /\ g.v1 < g.v0 /\ Len(GoWrites) >= 3

\* the iterations, before the last element of the array, whose reading of curr
\* is above the threshold
GoExceededAt ==
    {k \in 1..Len(g.obs) : k < Len(g.array) /\ g.obs[k] > g.threshold[1]}

\* C2: when _go_to is called with a threshold and curr is above it at a setpoint
\* before the target, _go_to stops there: it writes no later setpoint, leaves
\* the voltage at that setpoint, and returns it, an element of the sweep array.
C2_GoToHaltsAtExceedance ==
    (g.pc = "returned" /\ g.threshold # None /\ GoExceededAt # {}) =>
        LET k == CHOOSE m \in GoExceededAt : \A n \in GoExceededAt : m <= n IN
        /\ g.ret = Some(g.array[k])
        /\ GoWrites = SubSeq(g.array, 1, k)
        /\ inst.volt[g.chan] = g.array[k]
        /\ g.array[k] # g.v1

\* C3: whenever a threshold is given, 0 included, and the magnitude of curr read
\* after a setpoint write is above it, the remaining steps are aborted: no later
\* iteration of the loop begins.
C3_MagnitudeAborts ==
    g.threshold # None =>
        \A k \in 1..Len(g.obs) :
            Abs(g.obs[k]) > g.threshold[1] => g.i = k

\* the records of a row: the inner array once, or twice with a retrace
SwWidth == (IF gm.measure_retrace THEN 2 ELSE 1) * Len(sw.inner)

\* the p-th record of a sweep in row-major order, each row's retrace after its trace
SwExpectedAt(p) ==
    LET row == (p - 1) \div SwWidth
        within == (p - 1) % SwWidth
    IN  <<sw.outer[row + 1], sw.inner[(within % Len(sw.inner)) + 1],
          IF within < Len(sw.inner) THEN "trace" ELSE "retrace">>

\* C4: the records of a 2D sweep are in row-major order, the N retrace records
\* of a row right after its N forward records; an outer setpoint is written only
\* when the rows before it are complete; a finished sweep has M*N records, and
\* 2*M*N with the retrace gate_map was asked for.
C4_RowMajorRecords ==
    sw.pc # "idle" =>
        /\ \A p \in 1..Len(sw.records) : sw.records[p] = SwExpectedAt(p)
        /\ sw.pc = "outer" => Len(sw.records) = sw.i * SwWidth
        /\ sw.pc = "inner" => /\ (sw.i - 1) * SwWidth <= Len(sw.records)
                              /\ Len(sw.records) <= sw.i * SwWidth
        /\ sw.pc = "returned" => Len(sw.records) = SwWidth * Len(sw.outer)

C4_Witness ==
    /\ sw.pc = "returned" /\ gm.measure_retrace
    /\ Len(sw.outer) = 2 /\ Len(sw.inner) = 3
    /\ Len(sw.records) = 12

\* C5: in a run of gate_map no gate voltage is written before initialise_keithley
\* has completed; sweep2d is invoked only after it and after both approaches;
\* each gate's approach starts from the value read from that gate, which is the
\* gate's voltage until its approach begins; and when sweep2d is invoked smua
\* is at xarray[0] and smub at yarray[0].
C5_ApproachBeforeSweep ==
    gm.pc # "idle" =>
        /\ inst.writes # <<>> => gm.initialised
        /\ sw.pc # "idle" => gm.initialised /\ gm.approached = 2
        /\ gm.pc = "call_tg" => gm.init_tg = Some(inst.volt["smua"])
        /\ gm.pc \in {"call_tg", "goto_tg"} => gm.init_bg = Some(inst.volt["smub"])
        /\ (gm.pc = "sweep" /\ sw.pc = "outer" /\ sw.i = 0) =>
              /\ inst.volt["smua"] = gm.xarray[1]
              /\ inst.volt["smub"] = gm.yarray[1]
              /\ ChanWritesFrom(inst.writes, "smua", 1) =
                     generate_1D_sweep_array(gm.init_tg[1], gm.xarray[1], Step)
              /\ ChanWritesFrom(inst.writes, "smub", 1) =
                     generate_1D_sweep_array(gm.init_bg[1], gm.yarray[1], Step)

C5_Witness ==
    /\ gm.pc = "sweep" /\ sw.pc = "outer" /\ sw.i = 0
    /\ gm.init_tg # gm.init_bg
    /\ Len(inst.writes) >= 5

NoLockin == \A k \in 1..Len(station) : station[k] # "MFLI"

\* C6, as the spec has it: on a station without an MFLI an error comes before
\* any hardware motion: gate_map writes no gate voltage and starts no sweep,
\* and initialise_lockin writes nothing.
C6_NoMotionWithoutLockin ==
    NoLockin => /\ gm.pc # "idle" => (inst.writes = <<>> /\ sw.pc = "idle")
                /\ lk.writes = <<>>

\* C6, amended: on a station without an MFLI initialise_lockin raises before it
\* writes anything; gate_map raises nothing on that account: it hands sweep2d
\* the four fixed observables, the gates having been written by the approach.
C6_LockinRaisesGateMapRuns ==
    NoLockin =>
        /\ lk.pc \notin {"idle", "start"} => (lk.pc = "raised" /\ lk.writes = <<>> /\ lk.k = 0)
        /\ gm.pc = "raised" => (inst.failed \/ gm.failedIn = "index")
        /\ gm.call # None => (gm.call[1].param_meas = FixedObservables /\ inst.writes # <<>>)

C6_Witness ==
    /\ NoLockin /\ Len(station) > 2
    /\ lk.pc = "raised" /\ lk.lockins = <<>>

\* C7 in a state: once an instrument call has failed in a run of gate_map,
\* gate_map has raised; if that was in initialise, the reads or an approach,
\* sweep2d was never invoked and there is no record and no result.
C7_RaisedBeforeSweep ==
    (gm.pc # "idle" /\ inst.failed) =>
        /\ gm.pc = "raised"
        /\ gm.failedIn \in {"initialise", "read", "approach"} =>
              (sw.pc = "idle" /\ sw.records = <<>> /\ gm.call = None /\ gm.ret = None)

\* C7: a failed instrument call in gate_map's initialise or approach phase
\* leaves gate_map at once; after it no instrument is called again (no retry, no
\* further write) and sweep2d is never invoked.
C7_FailurePropagates ==
    /\ []C7_RaisedBeforeSweep
    /\ [][inst.failed => UNCHANGED <<inst, g, gm, sw>>]_vars

C7_Witness ==
    /\ gm.pc = "raised" /\ gm.failedIn = "approach" /\ inst.failed
    /\ gm.approached = 1 /\ Len(inst.writes) >= 3

MfliPositions == {k \in 1..Len(station) : station[k] = "MFLI"}

\* C8: the observables handed to sweep2d are demods[0].sample of every MFLI of
\* the station, in station order, and of nothing else, then triton.T8,
\* triton.Bz, smua.curr and smub.curr; use_threads is set, measure_retrace and
\* exp are the caller's, smua goes with xarray and inner_delay, smub with yarray
\* and outer_delay, and gate_map returns what sweep2d returned.
C8_ObservablesAndArguments ==
    /\ gm.call # None =>
          LET a == gm.call[1]
              n == Cardinality(MfliPositions)
          IN  /\ Len(a.param_meas) = n + 4
              /\ \A k \in 1..n : /\ a.param_meas[k][1] \in MfliPositions
                                 /\ a.param_meas[k][2] = "demods[0].sample"
              /\ \A k \in 1..n, m \in 1..n :
                    k < m => a.param_meas[k][1] < a.param_meas[m][1]
              /\ SubSeq(a.param_meas, n + 1, n + 4) =
                    << <<"triton", "T8">>, <<"triton", "Bz">>,
                       <<"keithley", "smua.curr">>, <<"keithley", "smub.curr">> >>
              /\ a.use_threads
              /\ a.measure_retrace = gm.measure_retrace
              /\ a.exp = gm.exp
              /\ a.param_setx = "smua" /\ a.xarray = gm.xarray
              /\ a.inner_delay = "inner_delay"
              /\ a.param_sety = "smub" /\ a.yarray = gm.yarray
              /\ a.outer_delay = "outer_delay"
    /\ gm.pc = "done" => (gm.ret # None /\ gm.ret = sw.result)

C8_Witness ==
    /\ gm.pc = "done" /\ Cardinality(MfliPositions) = 2
    /\ gm.exp = "exp" /\ gm.measure_retrace

LkSet(who, param, value) == LastWritten(lk.writes, who, param) = Some(value)

\* C9: when initialise_lockin has completed, the first MFLI of the station, and
\* no other, has its signal output on and drives the trigger outputs; every
\* other MFLI has its output off, its trigger sources 0 and its external
\* reference enabled; every MFLI has the demodulator and input settings; and
\* nothing but an MFLI has been written.
C9_OneReferenceSource ==
    lk.pc = "done" =>
        LET first == CHOOSE m \in MfliPositions : \A n \in MfliPositions : m <= n IN
        /\ MfliPositions # {}
        /\ {l \in 1..Len(station) : LkSet(l, "sigouts[0].on", "1")} = {first}
        /\ LkSet(first, "triggers.out[0].source", "52")
        /\ LkSet(first, "triggers.out[1].source", "1")
        /\ LkSet(first, "oscs[0].freq", lk.freq)
        /\ \A l \in MfliPositions \ {first} :
              /\ LkSet(l, "sigouts[0].on", "0")
              /\ LkSet(l, "triggers.out[0].source", "0")
              /\ LkSet(l, "triggers.out[1].source", "0")
              /\ LkSet(l, "extrefs[0].enable", "1")
        /\ \A l \in MfliPositions :
              /\ LkSet(l, "demods[0].oscselect", "0")
              /\ LkSet(l, "demods[0].harmonic", "1")
              /\ LkSet(l, "demods[0].phaseshift", "0")
              /\ LkSet(l, "demods[0].sinc", "1")
              /\ LkSet(l, "demods[0].timeconstant", ".1")
              /\ LkSet(l, "demods[0].order", "8")
              /\ LkSet(l, "sigins[0].ac", "1")
              /\ LkSet(l, "sigins[0].imp50", "0")
              /\ LkSet(l, "sigins[0].diff", "1")
              /\ LkSet(l, "sigins[0].float", "0")
              /\ LkSet(l, "sigins[0].scaling", "1")
              /\ LkSet(l, "sigins[0].range", "3e-3")
        /\ \A k \in 1..Len(lk.writes) : lk.writes[k][1] \in MfliPositions

C9_Witness ==
    /\ lk.pc = "done" /\ Cardinality(MfliPositions) >= 2

\* C10: with complex_plot_type 'imag' or 'phase' and a dataset without a second
\* component the plot functions report 'the dataset had no imaginary part' and
\* do not raise there; with a second component exactly that one is plotted; an
\* invalid complex_plot_type or complex_plot_phase raises ValueError before the
\* dataset is loaded.
C10_MissingImaginaryReported ==
    /\ (/\ pl.pc \in {"draw", "done", "raised"}
        /\ pl.complex_plot_type \in {"imag", "phase"}
        /\ pl.complex_plot_phase \in PlotPhases
        /\ pl.varKnown /\ ~pl.isComplex) =>
           /\ pl.printed = <<"the dataset had no imaginary part">>
           /\ pl.raised # Some("IndexError")
    /\ (/\ pl.pc = "done"
        /\ pl.complex_plot_type \in {"imag", "phase"}
        /\ pl.isComplex) =>
           pl.plotted = <<IF pl.complex_plot_type = "imag" THEN "imag" ELSE "phase">>
    /\ (/\ pl.pc # "start"
        /\ (pl.complex_plot_type \notin PlotTypes
            \/ pl.complex_plot_phase \notin PlotPhases)) =>
           (pl.pc = "raised" /\ pl.raised = Some("ValueError") /\ ~pl.loaded)

====
